---- MODULE Spec2Model ----
(***************************************************************************)
(* Model of upload_model.py: one run of main(), which calls                *)
(* upload_model_to_hf(model_path, repo_name, model_name) once and prints   *)
(* a final status line.  Python values are tagged records [t, v]; a dict   *)
(* is a function from string keys to values.                               *)
(***************************************************************************)
EXTENDS Integers, Sequences, FiniteSets, TLC

(* ------------------------------ bounds --------------------------------- *)
\* number of distinct parameter names a weight mapping may hold
MaxTensors == 2
\* number of distinct keys a nested configuration mapping may hold
MaxConfigKeys == 3

(* --------------------------- Python values ----------------------------- *)
PyNone == [t |-> "NoneType", v |-> <<>>]
PyStr(s) == [t |-> "str", v |-> s]
PyInt(n) == [t |-> "int", v |-> n]
PyList(l) == [t |-> "list", v |-> l]
PyDict(f) == [t |-> "dict", v |-> f]
\* a torch.Tensor, identified by its shape
Tensor(shape) == [t |-> "Tensor", v |-> shape]
\* an arbitrary Python object that is neither a mapping nor JSON-serializable
PyObject == [t |-> "object", v |-> <<>>]

EmptyDict == [k \in {} |-> PyNone]

\* d with key k bound to value x (dict item assignment)
DictPut(d, k, x) == [j \in DOMAIN d \cup {k} |-> IF j = k THEN x ELSE d[j]]

(* ------------------------------ inputs --------------------------------- *)
AllParamNames == <<"embed.weight", "layer.weight", "layer.bias", "head.weight">>
ParamNames == {AllParamNames[i] : i \in 1..MaxTensors}
Shapes == {<<1000, 1000>>, <<40, 30>>, <<3, 0>>}

AllConfigKeys == <<"d_model", "architectures", "model_type", "n_layers", "vocab_size">>
ConfigKeys == {AllConfigKeys[i] : i \in 1..MaxConfigKeys}
\* JSON-serializable values and one json.dump rejects
ConfigValues == {PyStr("gpt2"), PyList(<<"GPT2LMHeadModel">>), PyObject}

\* weight mappings: parameter name -> tensor
StateDicts == UNION {[S -> {Tensor(s) : s \in Shapes}] : S \in SUBSET ParamNames}
\* nested configuration mappings
Configs == UNION {[S -> ConfigValues] : S \in SUBSET ConfigKeys}

\* what torch.load can give back for an existing file
FlatCheckpoints == {PyDict(sd) : sd \in StateDicts}
    \cup {PyDict(DictPut(sd, "epoch", PyInt(3))) :
            sd \in {s \in StateDicts : Cardinality(DOMAIN s) = 1}}
    \cup {PyDict(DictPut(sd, "config", PyDict(cf))) :
            sd \in {s \in StateDicts : Cardinality(DOMAIN s) = 1},
            cf \in {c \in Configs : Cardinality(DOMAIN c) = 1}}
WrapperCheckpoints ==
    {PyDict([k \in {"model_state_dict"} |-> PyDict(sd)]) : sd \in StateDicts}
    \cup {PyDict([k \in {"model_state_dict", "config"} |->
                    IF k = "config" THEN c ELSE PyDict(sd)]) :
            sd \in StateDicts, c \in {PyDict(cf) : cf \in Configs} \cup {PyNone}}
Checkpoints == FlatCheckpoints \cup WrapperCheckpoints \cup {PyObject}

\* bytes of a file on disk: a pickled object, or something torch.load rejects
Pickle(obj) == [t |-> "pickle", v |-> obj]
Corrupt == [t |-> "corrupt", v |-> <<>>]
FileContents == {Pickle(c) : c \in Checkpoints} \cup {Corrupt}

\* paths as sequences of components
ExistingPath == <<"checkpoints", "model.pt">>
MissingPath == <<"checkpoints", "missing.pt">>
Paths == {ExistingPath, MissingPath}
RepoNames == {"user/hybrid-llm"}
\* argparse gives None for an omitted --model_name
ModelNames == {PyNone, PyStr("hybrid-v1")}
\* process environment after load_dotenv(): HF_TOKEN unset, empty or set
Environments == {EmptyDict,
                 [k \in {"HF_TOKEN"} |-> PyStr("")],
                 [k \in {"HF_TOKEN"} |-> PyStr("hf_secret")]}

(* ------------------------- library behaviour --------------------------- *)
\* os.getenv(k): the value, or None when the variable is unset
getenv(e, k) == IF k \in DOMAIN e THEN e[k] ELSE PyNone

\* faulty variant: `if hf_token is None`
TruthyUnlessNone(x) == x.t = "str"

\* Python truthiness of an Optional[str]: None and "" are falsy
Truthy(x) == x.t = "str" /\ x.v # ""

\* Path(p).exists()
PathExists(d, p) == p \in DOMAIN d

\* torch.load(p): the unpickled object; raises on a corrupt file
torch_load(d, p) ==
    IF p \notin DOMAIN d
    THEN [raised |-> "FileNotFoundError", value |-> PyNone]
    ELSE IF d[p].t = "pickle"
    THEN [raised |-> "", value |-> d[p].v]
    ELSE [raised |-> "UnpicklingError", value |-> PyNone]

\* checkpoint.get(k, default)
DictGet(d, k, default) == IF k \in DOMAIN d THEN d[k] ELSE default

\* body of the try block: load, then pick the weights and the configuration
LoadState(d, p) ==
    LET r == torch_load(d, p) IN
    IF r.raised # ""
    THEN [raised |-> r.raised, checkpoint |-> PyNone,
          model_state |-> PyNone, config |-> PyNone]
    ELSE IF r.value.t # "dict"
    THEN \* 'model_state_dict' in checkpoint: not a container
         [raised |-> "TypeError", checkpoint |-> r.value,
          model_state |-> PyNone, config |-> PyNone]
    ELSE IF "model_state_dict" \in DOMAIN r.value.v
    THEN [raised |-> "", checkpoint |-> r.value,
          model_state |-> r.value.v["model_state_dict"],
          config |-> DictGet(r.value.v, "config", PyDict(EmptyDict))]
    ELSE [raised |-> "", checkpoint |-> r.value,
          model_state |-> r.value, config |-> PyDict(EmptyDict)]

\* the two fixed architecture entries of the dict display
FixedConfig ==
    [k \in {"architectures", "model_type"} |->
        IF k = "architectures" THEN PyList(<<"HybridModel">>) ELSE PyStr("hybrid_llm")]

\* faulty variant: {**over, **base}
DictMergeKeepBase(base, over) ==
    [k \in DOMAIN base \cup DOMAIN over |-> IF k \in DOMAIN base THEN base[k] ELSE over[k]]

\* faulty variant: {**over}
DictMergeOverOnly(base, over) == over

\* {**base, **over}: entries of over replace entries of base with the same key
DictMerge(base, over) ==
    [k \in DOMAIN base \cup DOMAIN over |-> IF k \in DOMAIN over THEN over[k] ELSE base[k]]

\* {"architectures": ..., "model_type": ..., **config}; ** needs a mapping
MakeModelConfig(cfg) ==
    IF cfg.t = "dict"
    THEN [raised |-> "", value |-> PyDict(DictMerge(FixedConfig, cfg.v))]
    ELSE [raised |-> "TypeError", value |-> PyNone]

\* values json.dump can encode
JsonSerializable(x) ==
    \/ x.t \in {"str", "int", "list", "NoneType"}
    \/ x.t = "dict" /\ \A k \in DOMAIN x.v : x.v[k].t \in {"str", "int", "list", "NoneType"}

\* files of the scratch directory
JsonFile(x) == [t |-> "json", v |-> x.v]
WeightFile(x) == [t |-> "pickle", v |-> x]
TextFile(x) == [t |-> "text", v |-> x]
Dir(files) == [t |-> "dir", v |-> files]
IsFile(entry) == entry.t # "dir"

\* Tensor.numel(): product of the dimensions
RECURSIVE Product(_)
Product(shape) == IF shape = <<>> THEN 1 ELSE Head(shape) * Product(Tail(shape))
\* faulty variant: len(p) in place of p.numel()
FirstDim(p) == IF p.v = <<>> THEN 1 ELSE Head(p.v)
numel(p) == Product(p.v)

\* sum(p.numel() for p in model_state.values())
RECURSIVE SumNumel(_)
SumNumel(d) ==
    IF DOMAIN d = {} THEN 0
    ELSE LET k == CHOOSE j \in DOMAIN d : TRUE
         IN numel(d[k]) + SumNumel([j \in DOMAIN d \ {k} |-> d[j]])

\* the generator raises AttributeError on a value without numel()
ParamCount(ms) ==
    IF ms.t = "dict" /\ \A k \in DOMAIN ms.v : ms.v[k].t = "Tensor"
    THEN [raised |-> "", value |-> SumNumel(ms.v)]
    ELSE [raised |-> "AttributeError", value |-> 0]

\* format(n, ","): decimal digits grouped in threes by commas
DigitChars == <<"0", "1", "2", "3", "4", "5", "6", "7", "8", "9">>
RECURSIVE Decimal(_)
Decimal(n) ==
    IF n < 10 THEN <<DigitChars[n + 1]>>
    ELSE Append(Decimal(n \div 10), DigitChars[(n % 10) + 1])
RECURSIVE Group(_)
Group(s) ==
    IF Len(s) <= 3 THEN s
    ELSE Group(SubSeq(s, 1, Len(s) - 3)) \o <<",">> \o SubSeq(s, Len(s) - 2, Len(s))
FormatThousands(n) == Group(Decimal(n))

\* the f-string of the description document
ReadmeContent(ms, cfg, repo) ==
    LET n == ParamCount(ms) IN
    IF n.raised # "" THEN [raised |-> n.raised, value |-> PyNone]
    ELSE [raised |-> "",
          value |-> [parameters |-> FormatThousands(n.value),
                     config |-> JsonFile(cfg),
                     repo |-> repo]]

\* Path.name: the final component
PathName(p) == p[Len(p)]

\* model_name or model_path.name
CommitName(name, path) == IF Truthy(name) THEN name.v ELSE PathName(path)

\* subprocess.run: the child exits with a status, or it cannot be started
SubprocessOutcomes ==
    {[raised |-> "", returncode |-> 0],
     [raised |-> "", returncode |-> 128],
     [raised |-> "OSError", returncode |-> 0]}
\* faulty variant: subprocess.run without check=True
RunUnchecked(o) == o.raised

\* subprocess.run(..., check=True): the exception raised, "" if none;
\* a non-zero status raises CalledProcessError
RunChecked(o) ==
    IF o.raised = "" /\ o.returncode # 0 THEN "CalledProcessError" ELSE o.raised

\* exception classes that derive from Exception
Exceptions == {"UnpicklingError", "FileNotFoundError", "TypeError", "AttributeError",
               "OSError", "CalledProcessError"}

\* faulty variant: except pickle.UnpicklingError
CaughtUnpicklingOnly(e) == e = "UnpicklingError"

\* except Exception as e
CaughtLoad(e) == e \in Exceptions

\* faulty variant: except subprocess.TimeoutExpired
CaughtTimeoutOnly(e) == e = "TimeoutExpired"

\* except subprocess.CalledProcessError as e
CaughtGit(e) == e = "CalledProcessError"

\* the hub repository before the run
RemoteInit == [k \in {".gitattributes"} |-> TextFile("lfs")]

(* ------------------------------- state --------------------------------- *)
VARIABLES
    env,          \* process environment
    args,         \* parsed command line
    disk,         \* files outside the scratch directory
    remote,       \* files of the hub repository
    pc,           \* position of the run
    hf_token,
    temp_dir,     \* "absent", "present" or "removed"
    temp_files,   \* entries of the scratch directory
    checkpoint, model_state, config, model_config,
    ops,          \* file and subprocess operations performed, in order
    stdout,       \* lines printed
    success,      \* return value of upload_model_to_hf: "unset", "True", "False"
    exc           \* exception propagating out of upload_model_to_hf, "" if none

inputs == <<env, args, disk>>
locals == <<checkpoint, model_state, config, model_config>>
vars == <<env, args, disk, remote, pc, hf_token, temp_dir, temp_files,
          checkpoint, model_state, config, model_config, ops, stdout, success, exc>>

\* entries of ops: a file operation, one that raised, a subprocess run with its argument
Op(name) == [op |-> name, arg |-> "", returncode |-> 0, raised |-> ""]
Raised(name, e) == [op |-> name, arg |-> "", returncode |-> 0, raised |-> e]
Ran(name, a, o) == [op |-> name, arg |-> a, returncode |-> o.returncode, raised |-> o.raised]

Init ==
    /\ env \in Environments
    /\ args \in [model_path : Paths, repo_name : RepoNames, model_name : ModelNames]
    /\ disk \in {[p \in {ExistingPath} |-> c] : c \in FileContents}
    /\ remote = RemoteInit
    /\ pc = "token"
    /\ hf_token = PyNone
    /\ temp_dir = "absent"
    /\ temp_files = EmptyDict
    /\ checkpoint = PyNone /\ model_state = PyNone
    /\ config = PyNone /\ model_config = PyNone
    /\ ops = <<>>
    /\ stdout = <<>>
    /\ success = "unset"
    /\ exc = ""

\* faulty variant: tempfile.mkdtemp() with no removal
ExitTempDirLeak ==
    /\ temp_dir' = temp_dir
    /\ temp_files' = temp_files

\* TemporaryDirectory.__exit__: the scratch directory and all it holds are removed
ExitTempDir ==
    /\ temp_dir' = "removed"
    /\ temp_files' = EmptyDict

\* return v from inside the with block
ReturnInside(v, line, done) ==
    /\ success' = v
    /\ stdout' = Append(stdout, line)
    /\ ops' = done \o <<Op("rmtree")>>
    /\ ExitTempDir
    /\ pc' = "returned"
    /\ UNCHANGED exc

\* an exception leaves the with block uncaught
RaiseInside(e, done) ==
    /\ exc' = e
    /\ ops' = done \o <<Op("rmtree")>>
    /\ ExitTempDir
    /\ pc' = "raised"
    /\ UNCHANGED <<success, stdout>>

\* lines 22-27
CheckToken ==
    /\ pc = "token"
    /\ hf_token' = getenv(env, "HF_TOKEN")
    /\ IF ~Truthy(hf_token')
       THEN /\ stdout' = stdout \o <<"HF_TOKEN not found in .env file",
                                     "Create .env file with: HF_TOKEN=your_token_here">>
            /\ success' = "False"
            /\ pc' = "returned"
       ELSE /\ pc' = "exists"
            /\ UNCHANGED <<stdout, success>>
    /\ UNCHANGED <<inputs, remote, temp_dir, temp_files, locals, ops, exc>>

\* faulty variant: a bare `return` for the missing file
CheckExistsBareReturn ==
    /\ pc = "exists"
    /\ ops' = Append(ops, Op("stat"))
    /\ IF ~PathExists(disk, args.model_path)
       THEN /\ stdout' = Append(stdout, "Model file not found")
            /\ success' = "None"
            /\ pc' = "returned"
       ELSE /\ pc' = "tempdir"
            /\ UNCHANGED <<stdout, success>>
    /\ UNCHANGED <<inputs, remote, hf_token, temp_dir, temp_files, locals, exc>>

\* lines 29-32
CheckExists ==
    /\ pc = "exists"
    /\ ops' = Append(ops, Op("stat"))
    /\ IF ~PathExists(disk, args.model_path)
       THEN /\ stdout' = Append(stdout, "Model file not found")
            /\ success' = "False"
            /\ pc' = "returned"
       ELSE /\ pc' = "tempdir"
            /\ UNCHANGED <<stdout, success>>
    /\ UNCHANGED <<inputs, remote, hf_token, temp_dir, temp_files, locals, exc>>

\* lines 35-36
EnterTempDir ==
    /\ pc = "tempdir"
    /\ temp_dir' = "present"
    /\ ops' = Append(ops, Op("mkdtemp"))
    /\ stdout' = Append(stdout, "Preparing upload to")
    /\ pc' = "load"
    /\ UNCHANGED <<inputs, remote, hf_token, temp_files, locals, success, exc>>

\* lines 38-49
LoadCheckpoint ==
    /\ pc = "load"
    /\ LET r == LoadState(disk, args.model_path) IN
       IF r.raised # ""
       THEN /\ IF CaughtLoad(r.raised)
               THEN ReturnInside("False", "Failed to load model",
                                 Append(ops, Raised("torch.load", r.raised)))
               ELSE RaiseInside(r.raised, Append(ops, Raised("torch.load", r.raised)))
            /\ UNCHANGED locals
       ELSE /\ checkpoint' = r.checkpoint
            /\ model_state' = r.model_state
            /\ config' = r.config
            /\ ops' = Append(ops, Op("torch.load"))
            /\ pc' = "config"
            /\ UNCHANGED <<model_config, temp_dir, temp_files, stdout, success, exc>>
    /\ UNCHANGED <<inputs, remote, hf_token>>

\* lines 51-56
BuildConfig ==
    /\ pc = "config"
    /\ LET r == MakeModelConfig(config) IN
       IF r.raised # ""
       THEN /\ RaiseInside(r.raised, ops)
            /\ UNCHANGED model_config
       ELSE /\ model_config' = r.value
            /\ pc' = "dump"
            /\ UNCHANGED <<temp_dir, temp_files, ops, stdout, success, exc>>
    /\ UNCHANGED <<inputs, remote, hf_token, checkpoint, model_state, config>>

\* lines 58-61
WriteConfig ==
    /\ pc = "dump"
    /\ IF JsonSerializable(model_config)
       THEN /\ temp_files' = DictPut(temp_files, "config.json", JsonFile(model_config))
            /\ ops' = Append(ops, Op("write config.json"))
            /\ pc' = "save"
            /\ UNCHANGED <<temp_dir, stdout, success, exc>>
       ELSE \* the file is open and partly written when json.dump raises
            RaiseInside("TypeError", Append(ops, Raised("write config.json", "TypeError")))
    /\ UNCHANGED <<inputs, remote, hf_token, locals>>

\* lines 63-64
SaveWeights ==
    /\ pc = "save"
    /\ temp_files' = DictPut(temp_files, "pytorch_model.bin", WeightFile(model_state))
    /\ ops' = Append(ops, Op("torch.save"))
    /\ pc' = "readme"
    /\ UNCHANGED <<inputs, remote, hf_token, temp_dir, locals, stdout, success, exc>>

\* lines 66-85
WriteReadme ==
    /\ pc = "readme"
    /\ LET r == ReadmeContent(model_state, config, args.repo_name) IN
       IF r.raised # ""
       THEN RaiseInside(r.raised, ops)
       ELSE /\ temp_files' = DictPut(temp_files, "README.md", TextFile(r.value))
            /\ ops' = Append(ops, Op("write README.md"))
            /\ pc' = "clone"
            /\ UNCHANGED <<temp_dir, stdout, success, exc>>
    /\ UNCHANGED <<inputs, remote, hf_token, locals>>

\* a subprocess.run of the try block that raises: CalledProcessError is caught
\* (lines 114-116), anything else propagates
GitFails(cmd, a, o) ==
    IF CaughtGit(RunChecked(o))
    THEN ReturnInside("False", "Git operation failed", Append(ops, Ran(cmd, a, o)))
    ELSE RaiseInside(RunChecked(o), Append(ops, Ran(cmd, a, o)))

\* the subprocess.run returns normally
GitCompletes(o) == RunChecked(o) = ""

\* lines 88-93
GitClone ==
    /\ pc = "clone"
    /\ \E o \in SubprocessOutcomes :
        IF GitCompletes(o)
        THEN /\ temp_files' = DictPut(temp_files, "repo",
                        Dir(IF o.returncode = 0 THEN remote ELSE EmptyDict))
             /\ ops' = Append(ops, Ran("git clone", args.repo_name, o))
             /\ pc' = "copy"
             /\ UNCHANGED <<temp_dir, stdout, success, exc>>
        ELSE GitFails("git clone", args.repo_name, o)
    /\ UNCHANGED <<inputs, remote, hf_token, locals>>

\* files of directory entries d copied into its "repo" subdirectory
CopyIntoRepo(d) ==
    LET names == {f \in DOMAIN d : f # "repo" /\ IsFile(d[f])}
        repo == d["repo"].v
    IN DictPut(d, "repo",
               Dir([f \in DOMAIN repo \cup names |-> IF f \in names THEN d[f] ELSE repo[f]]))

\* lines 95-102
CopyFiles ==
    /\ pc = "copy"
    /\ temp_files' = CopyIntoRepo(temp_files)
    /\ ops' = Append(ops, Op("copy"))
    /\ pc' = "add"
    /\ UNCHANGED <<inputs, remote, hf_token, temp_dir, locals, stdout, success, exc>>

\* line 105
GitAdd ==
    /\ pc = "add"
    /\ \E o \in SubprocessOutcomes :
        IF GitCompletes(o)
        THEN /\ ops' = Append(ops, Ran("git add", ".", o))
             /\ pc' = "commit"
             /\ UNCHANGED <<temp_dir, temp_files, stdout, success, exc>>
        ELSE GitFails("git add", ".", o)
    /\ UNCHANGED <<inputs, remote, hf_token, locals>>

\* lines 106-108
GitCommit ==
    /\ pc = "commit"
    /\ \E o \in SubprocessOutcomes :
        IF GitCompletes(o)
        THEN /\ ops' = Append(ops, Ran("git commit", CommitName(args.model_name, args.model_path), o))
             /\ pc' = "push"
             /\ UNCHANGED <<temp_dir, temp_files, stdout, success, exc>>
        ELSE GitFails("git commit", CommitName(args.model_name, args.model_path), o)
    /\ UNCHANGED <<inputs, remote, hf_token, locals>>

\* lines 109-112
GitPush ==
    /\ pc = "push"
    /\ \E o \in SubprocessOutcomes :
        IF GitCompletes(o)
        THEN /\ remote' = IF o.returncode = 0 THEN temp_files["repo"].v ELSE remote
             /\ ReturnInside("True", "Model uploaded successfully to",
                             Append(ops, Ran("git push", "", o)))
        ELSE /\ GitFails("git push", "", o)
             /\ UNCHANGED remote
    /\ UNCHANGED <<inputs, hf_token, locals>>

\* lines 126-130
MainReport ==
    /\ pc = "returned"
    /\ stdout' = Append(stdout, IF success = "True" THEN "Upload complete!"
                                ELSE "Upload failed!")
    /\ pc' = "exit"
    /\ UNCHANGED <<inputs, remote, hf_token, temp_dir, temp_files, locals, ops, success, exc>>

\* line 126: the exception passes through main and ends the process
MainTraceback ==
    /\ pc = "raised"
    /\ pc' = "crashed"
    /\ UNCHANGED <<inputs, remote, hf_token, temp_dir, temp_files, locals, ops,
                   stdout, success, exc>>

Next ==
    \/ CheckToken
    \/ CheckExists
    \/ EnterTempDir
    \/ LoadCheckpoint
    \/ BuildConfig
    \/ WriteConfig
    \/ SaveWeights
    \/ WriteReadme
    \/ GitClone
    \/ CopyFiles
    \/ GitAdd
    \/ GitCommit
    \/ GitPush
    \/ MainReport
    \/ MainTraceback

Spec == Init /\ [][Next]_vars

(* ----------------------------- properties ------------------------------ *)
GitOps == {"git clone", "git add", "git commit", "git push"}
ArtifactOps == {"write config.json", "torch.save", "write README.md"}
ArtifactNames == {"config.json", "pytorch_model.bin", "README.md"}
Performed(name) == \E i \in 1..Len(ops) : ops[i].op = name
Printed(line) == \E i \in 1..Len(stdout) : stdout[i] = line
Returned == pc \in {"returned", "exit"}
Escaped == pc \in {"raised", "crashed"}

\* the inputs of the run, read off the environment, the command line and the disk
NoCredential == "HF_TOKEN" \notin DOMAIN env \/ env["HF_TOKEN"].v = ""
CheckpointMissing == args.model_path \notin DOMAIN disk
Pickled == disk[args.model_path].v
LoadFails == disk[args.model_path].t = "corrupt" \/ Pickled.t # "dict"
IsWrapper == "model_state_dict" \in DOMAIN Pickled.v
NestedConfig ==
    IF IsWrapper /\ "config" \in DOMAIN Pickled.v THEN Pickled.v["config"].v ELSE EmptyDict
SavedWeights == IF IsWrapper THEN Pickled.v["model_state_dict"] ELSE Pickled

\* C1: with HF_TOKEN unset or empty the routine returns False and does nothing
\* else: no file or subprocess operation, no scratch directory, remote untouched.
C1_NoCredentialNoOperation ==
    NoCredential =>
        /\ ops = <<>>
        /\ temp_dir = "absent"
        /\ temp_files = EmptyDict
        /\ remote = RemoteInit
        /\ exc = ""
        /\ pc \in {"token", "returned", "exit"}
        /\ pc # "token" => success = "False"

C1_Witness ==
    /\ "HF_TOKEN" \in DOMAIN env /\ env["HF_TOKEN"].v = ""
    /\ args.model_path = ExistingPath
    /\ pc = "exit"
    /\ success = "False"

\* C2: with a credential and a checkpoint path that does not exist the routine
\* returns False; no git command is run and no artifact file is written.
C2_MissingCheckpointNoClone ==
    (~NoCredential /\ CheckpointMissing) =>
        /\ \A i \in 1..Len(ops) : ops[i].op \notin GitOps \cup ArtifactOps
        /\ \A f \in ArtifactNames \cup {"repo"} : f \notin DOMAIN temp_files
        /\ remote = RemoteInit
        /\ ~Escaped
        /\ Returned => success = "False"

C2_Witness ==
    /\ ~NoCredential /\ CheckpointMissing
    /\ pc = "exit"
    /\ success = "False"
    /\ Printed("Model file not found")

\* C3: when the checkpoint exists and loading it raises, the exception is caught
\* and the routine returns False; no artifact is written and no git command run.
C3_LoadFailureCaught ==
    (~NoCredential /\ ~CheckpointMissing /\ LoadFails) =>
        /\ \A i \in 1..Len(ops) : ops[i].op \notin GitOps \cup ArtifactOps
        /\ \A f \in ArtifactNames \cup {"repo"} : f \notin DOMAIN temp_files
        /\ ~Escaped /\ exc = ""
        /\ Returned => success = "False"
        /\ Performed("torch.load") => Returned /\ Printed("Failed to load model")

C3_Witness ==
    /\ ~NoCredential /\ ~CheckpointMissing
    /\ disk[args.model_path].t = "pickle" /\ Pickled.t # "dict"
    /\ Performed("torch.load")
    /\ pc = "exit"
    /\ success = "False"

\* C4: a clone, add, commit or push that exits non-zero is caught and the routine
\* returns False; no git step follows the failing one and the success
\* confirmation is not printed.
C4_GitFailureReturnsFalse ==
    \A i \in 1..Len(ops) :
        (ops[i].op \in GitOps /\ ops[i].raised = "" /\ ops[i].returncode # 0) =>
            /\ \A j \in (i + 1)..Len(ops) : ops[j].op \notin GitOps \cup {"copy"}
            /\ Returned
            /\ success = "False"
            /\ exc = ""
            /\ ~Printed("Model uploaded successfully to")
            /\ Printed("Git operation failed")

C4_Witness ==
    /\ \E i \in 1..Len(ops) : ops[i].op = "git commit" /\ ops[i].returncode # 0
    /\ pc = "exit"
    /\ success = "False"

\* C5: once the scratch directory was created it is gone when the routine has
\* exited, whether by return or by an exception that propagates.
C5_ScratchRemovedOnExit ==
    (Performed("mkdtemp") /\ (Returned \/ Escaped)) =>
        /\ temp_dir = "removed"
        /\ temp_files = EmptyDict

C5_Witness ==
    /\ \E i \in 1..Len(ops) : ops[i].op = "git push" /\ ops[i].returncode # 0
    /\ Returned
    /\ success = "False"
    /\ temp_dir = "removed"

\* C6 as stated: config.json always holds the two fixed architecture values,
\* also when the nested configuration has keys of the same name.
C6_FixedKeysNotOverwritten ==
    "config.json" \in DOMAIN temp_files =>
        /\ temp_files["config.json"].v["architectures"] = PyList(<<"HybridModel">>)
        /\ temp_files["config.json"].v["model_type"] = PyStr("hybrid_llm")

\* C6 amended: config.json has both architecture keys; a key of that name in the
\* nested configuration replaces the fixed value, which is kept only when the
\* nested configuration has no such key.
C6_NestedValuesWin ==
    "config.json" \in DOMAIN temp_files =>
        LET written == temp_files["config.json"].v IN
        /\ {"architectures", "model_type"} \subseteq DOMAIN written
        /\ written["architectures"] =
              IF "architectures" \in DOMAIN NestedConfig
              THEN NestedConfig["architectures"] ELSE PyList(<<"HybridModel">>)
        /\ written["model_type"] =
              IF "model_type" \in DOMAIN NestedConfig
              THEN NestedConfig["model_type"] ELSE PyStr("hybrid_llm")

C6_Witness ==
    /\ "config.json" \in DOMAIN temp_files
    /\ IsWrapper
    /\ "architectures" \in DOMAIN NestedConfig
    /\ temp_files["config.json"].v["architectures"] = PyStr("gpt2")
    /\ temp_files["config.json"].v["model_type"] = PyStr("hybrid_llm")

\* C7: the keys of config.json are the two fixed keys together with the keys of
\* the nested configuration: only the fixed keys for a flat checkpoint or a
\* wrapper without 'config'.
C7_ConfigKeySet ==
    "config.json" \in DOMAIN temp_files =>
        /\ temp_files["config.json"].t = "json"
        /\ DOMAIN temp_files["config.json"].v =
              {"architectures", "model_type"} \cup DOMAIN NestedConfig
        /\ (~IsWrapper \/ "config" \notin DOMAIN Pickled.v) =>
              DOMAIN temp_files["config.json"].v = {"architectures", "model_type"}

C7_Witness ==
    /\ "config.json" \in DOMAIN temp_files
    /\ IsWrapper
    /\ DOMAIN NestedConfig = {"d_model"}
    /\ DOMAIN temp_files["config.json"].v = {"architectures", "model_type", "d_model"}

\* the number a grouped decimal string denotes
DigitValue(c) == CHOOSE d \in 0..9 : DigitChars[d + 1] = c
RECURSIVE ParseCount(_)
ParseCount(s) ==
    IF s = <<>> THEN 0
    ELSE IF s[Len(s)] = "," THEN ParseCount(SubSeq(s, 1, Len(s) - 1))
    ELSE 10 * ParseCount(SubSeq(s, 1, Len(s) - 1)) + DigitValue(s[Len(s)])
\* a comma before every group of three digits, and nowhere else
WellGrouped(s) ==
    /\ s # <<>>
    /\ s[1] # ","
    /\ \A i \in 1..Len(s) : (s[i] = ",") <=> ((Len(s) - i + 1) % 4 = 0)
\* elements of a tensor of rank at most two
Elements(p) ==
    IF Len(p.v) = 0 THEN 1 ELSE IF Len(p.v) = 1 THEN p.v[1] ELSE p.v[1] * p.v[2]
RECURSIVE ElementsFrom(_, _)
ElementsFrom(d, i) ==
    IF i > Len(AllParamNames) THEN 0
    ELSE (IF AllParamNames[i] \in DOMAIN d THEN Elements(d[AllParamNames[i]]) ELSE 0)
         + ElementsFrom(d, i + 1)

\* C8: the parameter count printed in README.md is the number of elements of all
\* tensors of the weight mapping saved as pytorch_model.bin, which is the
\* nested mapping of a wrapper and the whole checkpoint otherwise.
C8_ReadmeParameterCount ==
    "README.md" \in DOMAIN temp_files =>
        /\ temp_files["pytorch_model.bin"] = WeightFile(SavedWeights)
        /\ WellGrouped(temp_files["README.md"].v.parameters)
        /\ ParseCount(temp_files["README.md"].v.parameters)
              = ElementsFrom(SavedWeights.v, 1)

C8_Witness ==
    /\ "README.md" \in DOMAIN temp_files
    /\ IsWrapper
    /\ Cardinality(DOMAIN SavedWeights.v) = 2
    /\ temp_files["README.md"].v.parameters
          = <<"1", ",", "0", "0", "1", ",", "2", "0", "0">>

\* the empty weight mapping is reported as 0
C8_WitnessEmpty ==
    /\ "README.md" \in DOMAIN temp_files
    /\ DOMAIN SavedWeights.v = {}
    /\ temp_files["README.md"].v.parameters = <<"0">>

\* C9 as stated: every run that ends has returned a boolean, no exception leaves
\* the routine, and main prints one of its two final status lines.
C9_AlwaysReturnsBoolean ==
    /\ ~Escaped
    /\ exc = ""
    /\ Returned => success \in {"True", "False"}
    /\ pc = "exit" => (Printed("Upload complete!") \/ Printed("Upload failed!"))

\* the order of the operations of a complete run
RunOrder == <<"stat", "mkdtemp", "torch.load", "write config.json", "torch.save",
              "write README.md", "git clone", "copy", "git add", "git commit", "git push">>
\* the operations before the removal of the scratch directory
Steps == IF ops # <<>> /\ ops[Len(ops)].op = "rmtree" THEN SubSeq(ops, 1, Len(ops) - 1) ELSE ops
Succeeded(e) == e.raised = "" /\ e.returncode = 0

\* C10: the operations run in the fixed order, each at most once and each only
\* after all earlier ones succeeded, so clone follows the checks, the load and
\* the three writes, and copy, add, commit, push follow clone in that order;
\* True is returned, with the confirmation, only after a push with status 0.
C10_FixedOrderNoRetry ==
    /\ Len(Steps) <= Len(RunOrder)
    /\ \A i \in 1..Len(Steps) : Steps[i].op = RunOrder[i]
    /\ \A i \in 1..(Len(Steps) - 1) : Succeeded(Steps[i])
    /\ (success = "True" \/ Printed("Model uploaded successfully to")) =>
          /\ Len(Steps) = Len(RunOrder)
          /\ Succeeded(Steps[Len(Steps)])
          /\ success = "True"
          /\ Printed("Model uploaded successfully to")

C10_Witness ==
    /\ pc = "exit"
    /\ success = "True"
    /\ Printed("Upload complete!")
    /\ [i \in 1..Len(Steps) |-> Steps[i].op] = RunOrder
    /\ "README.md" \in DOMAIN remote

====
